---- MODULE Spec2Model ----
(***************************************************************************)
(* Model of src/bot.py: a chat bot that keeps, per chat, a watchlist of TV *)
(* series in one shared JSON document.  Every handler is a coroutine of    *)
(* one event loop: a handler runs without interruption between two of its  *)
(* "await" points, so one action of this model is one such segment.        *)
(*                                                                         *)
(* Strings of the program that are parsed (command arguments, titles,      *)
(* dates) are sequences of one-character strings.                          *)
(***************************************************************************)
EXTENDS Integers, Sequences, FiniteSets, TLC

VARIABLES
    disk,     \* the content of DB_PATH (series_data.json)
    hs,       \* the handlers suspended at an await: position and locals
    kbs,      \* the inline keyboards on screen, as rendered
    sent,     \* the last message the bot sent
    serial,   \* history: the store after the completed mutations, in save order
    mem       \* the last call made on its own (load_db, get_items, a render),
              \* or, in SpecAdd, the last /add and the store it found

vars == <<disk, hs, kbs, sent, serial, mem>>

(***************************************************************************)
(* Bounds of the model.                                                    *)
(***************************************************************************)
MaxEntries == 2   \* entries in the whole store, all chats together (Spec)
MaxShown == 3     \* entries of the one chat of SpecUI

(***************************************************************************)
(* Program constants.                                                      *)
(***************************************************************************)
PAGE_SIZE == 10

Handlers == {"h1", "h2"}
Chats == {"10", "20"}
NoUser == "None"
Users == {"u7", "u8"}
MaybeUsers == Users \cup {NoUser}
NoId == 0

(***************************************************************************)
(* Characters and strings.                                                 *)
(***************************************************************************)
Digits == {"0", "1", "2", "3", "4", "5", "6", "7", "8", "9"}

DigitVal(ch) ==
    CASE ch = "0" -> 0 [] ch = "1" -> 1 [] ch = "2" -> 2 [] ch = "3" -> 3
      [] ch = "4" -> 4 [] ch = "5" -> 5 [] ch = "6" -> 6 [] ch = "7" -> 7
      [] ch = "8" -> 8 [] ch = "9" -> 9

\* int(s) for a string of decimal digits
RECURSIVE ToInt(_)
ToInt(s) ==
    IF s = <<>> THEN 0
    ELSE 10 * ToInt(SubSeq(s, 1, Len(s) - 1)) + DigitVal(s[Len(s)])

\* re.fullmatch(r"\d+", s)
IsDigits(s) == Len(s) > 0 /\ \A i \in 1..Len(s) : s[i] \in Digits

\* str.lower() on the letters the model uses
LowerCh(ch) ==
    CASE ch = "A" -> "a" [] ch = "B" -> "b" [] ch = "C" -> "c" [] ch = "S" -> "s"
      [] OTHER -> ch

IsSpace(ch) == ch = " "

RECURSIVE Concat(_)
Concat(ss) == IF ss = <<>> THEN <<>> ELSE Head(ss) \o Concat(Tail(ss))

\* the set of the members of a sequence
Range(s) == {s[i] : i \in 1..Len(s)}

\* sorted(set): the members in ascending order
RECURSIVE SortedSeq(_)
SortedSeq(S) ==
    IF S = {} THEN <<>>
    ELSE LET m == CHOOSE x \in S : \A y \in S : x <= y
         IN  <<m>> \o SortedSeq(S \ {m})

\* the longest run of digits of s that starts at position i
RECURSIVE DigitRun(_, _)
DigitRun(s, i) ==
    IF i <= Len(s) /\ s[i] \in Digits THEN <<s[i]>> \o DigitRun(s, i + 1) ELSE <<>>

\* re.findall(r"[sS](\d+)", s) from position i on, as integers
RECURSIVE FindSeasons(_, _)
FindSeasons(s, i) ==
    IF i > Len(s) THEN {}
    ELSE IF s[i] \in {"s", "S"} /\ DigitRun(s, i + 1) # <<>>
         THEN {ToInt(DigitRun(s, i + 1))}
                 \cup FindSeasons(s, i + 1 + Len(DigitRun(s, i + 1)))
         ELSE FindSeasons(s, i + 1)

parse_seasons_string(s) == SortedSeq(FindSeasons(s, 1))

\* str.strip()
RECURSIVE LStrip(_)
LStrip(s) == IF s # <<>> /\ IsSpace(Head(s)) THEN LStrip(Tail(s)) ELSE s

RECURSIVE RStrip(_)
RStrip(s) ==
    IF s # <<>> /\ IsSpace(s[Len(s)]) THEN RStrip(SubSeq(s, 1, Len(s) - 1)) ELSE s

Strip(s) == RStrip(LStrip(s))

\* re.sub(r"\s+", " ", s)
RECURSIVE CollapseSpaces(_)
CollapseSpaces(s) ==
    IF s = <<>> THEN <<>>
    ELSE IF IsSpace(Head(s)) THEN <<" ">> \o CollapseSpaces(LStrip(s))
         ELSE <<Head(s)>> \o CollapseSpaces(Tail(s))

Lower(s) == [i \in 1..Len(s) |-> LowerCh(s[i])]

normalize(s) == CollapseSpaces(Lower(Strip(s)))

\* s.split("-")[0]
RECURSIVE BeforeDash(_)
BeforeDash(s) ==
    IF s = <<>> \/ Head(s) = "-" THEN <<>> ELSE <<Head(s)>> \o BeforeDash(Tail(s))

(***************************************************************************)
(* The catalog (TMDB).  A call can fail; what it returns for an id is      *)
(* fixed.  Two series share a title up to case and spacing.                *)
(***************************************************************************)
Ids == {1, 2, 3}

TMDB(id) ==
    CASE id = 1 -> [name |-> <<"A", " ", "b">>,
                    first_air_date |-> <<"2", "0", "0", "4", "-", "0", "1">>]
      [] id = 2 -> [name |-> <<"a", " ", " ", "B">>,
                    first_air_date |-> <<"2", "0", "1", "1", "-", "0", "9">>]
      [] id = 3 -> [name |-> <<"C">>,
                    first_air_date |-> <<"2", "0", "2", "0", "-", "1", "2">>]

(***************************************************************************)
(* The persisted document and the store in memory.                         *)
(*   file:  [kind: absent | malformed | json, top: dict | list | scalar |  *)
(*           null | none, val: the mapping when top = dict]                *)
(*   chat value: [shape: dict | list | null | scalar,                      *)
(*                key: list | null | missing | none   (of "items"),        *)
(*                items: the list when there is one]                       *)
(*   entry: [tmdb_id, title, year, completed, user_id]; user_id = NoUser   *)
(*          stands for an entry without the "user_id" key                  *)
(***************************************************************************)
EmptyDb == <<>>

AbsentFile == [kind |-> "absent", top |-> "none", val |-> EmptyDb]
MalformedFile == [kind |-> "malformed", top |-> "none", val |-> EmptyDb]

ChatDict(items) == [shape |-> "dict", key |-> "list", items |-> items]

\* json.loads(DB_PATH.read_text()): the value, or a failure
json_loads(file) ==
    IF file.kind = "json" THEN [ok |-> TRUE, top |-> file.top, val |-> file.val]
    ELSE [ok |-> FALSE, top |-> "none", val |-> EmptyDb]

\* the loop of load_db over one chat value
NormalizeChat(v) ==
    IF v.shape = "list" THEN ChatDict(v.items)
    ELSE IF v.shape = "dict" /\ v.key = "missing"
         THEN [shape |-> "dict", key |-> "list", items |-> <<>>]
         ELSE v

\* load_db without its try/except: a document that does not parse raises
load_db_unguarded(file) ==
    LET parsed == json_loads(file)
        db == IF file.kind # "absent" /\ parsed.ok /\ parsed.top = "dict"
              THEN parsed.val ELSE EmptyDb
    IN  [raised |-> file.kind # "absent" /\ ~parsed.ok,
         db |-> [k \in DOMAIN db |-> NormalizeChat(db[k])]]

load_db(file) ==
    LET parsed == json_loads(file)
        db == IF file.kind # "absent"
              THEN IF parsed.ok
                   THEN IF parsed.top = "dict" THEN parsed.val ELSE EmptyDb
                   ELSE EmptyDb
              ELSE EmptyDb
    IN  [raised |-> FALSE,
         db |-> [k \in DOMAIN db |-> NormalizeChat(db[k])]]

\* save_db: the whole mapping, written over the document
save_db(db) == [kind |-> "json", top |-> "dict", val |-> db]

ensure_chat(db, chat_id) ==
    IF chat_id \in DOMAIN db THEN db
    ELSE [k \in DOMAIN db \cup {chat_id} |->
            IF k = chat_id THEN ChatDict(<<>>) ELSE db[k]]

\* get_items: db after ensure_chat, and db[chat_id]["items"]: a list, None
\* (isnone) or an exception (raised)
get_items(db, chat_id) ==
    LET db2 == ensure_chat(db, chat_id)
        v == db2[chat_id]
    IN  [db |-> db2,
         raised |-> ~(v.shape = "dict" /\ v.key \in {"list", "null"}),
         isnone |-> v.shape = "dict" /\ v.key = "null",
         items |-> IF v.shape = "dict" /\ v.key = "list" THEN v.items ELSE <<>>]

\* db with db[chat_id]["items"] replaced
SetItems(db, chat_id, items) ==
    [k \in DOMAIN db |-> IF k = chat_id THEN ChatDict(items) ELSE db[k]]

(***************************************************************************)
(* /add: add_series.                                                       *)
(***************************************************************************)
\* re.search(r"[sS]\d+", s)
HasSeasonToken(s) == FindSeasons(s, 1) # {}

\* re.fullmatch(r"\d{4}", s)
IsYear(s) == Len(s) = 4 /\ IsDigits(s)

\* " ".join(args)
RECURSIVE JoinSpace(_)
JoinSpace(args) ==
    IF args = <<>> THEN <<>>
    ELSE IF Len(args) = 1 THEN Head(args)
         ELSE Head(args) \o <<" ">> \o JoinSpace(Tail(args))

Front(s) == SubSeq(s, 1, Len(s) - 1)

\* title = <<>> stands for None or the empty title, year = <<>> for None
extract_title_year_and_seasons(args) ==
    LET hasS == HasSeasonToken(args[Len(args)])
        seasons_str == IF hasS THEN args[Len(args)] ELSE <<>>
        args1 == IF hasS THEN Front(args) ELSE args
        hasY == args1 # <<>> /\ IsYear(args1[Len(args1)])
        year == IF hasY THEN args1[Len(args1)] ELSE <<>>
        args2 == IF hasY THEN Front(args1) ELSE args1
    IN  [title |-> Strip(JoinSpace(args2)),
         year |-> year,
         seasons |-> parse_seasons_string(seasons_str)]

\* the first result of the year asked for, else the first result; 0 when
\* the search found nothing
find_series_by_title_year(results, year) ==
    IF results = <<>> THEN NoId
    ELSE LET hits == {i \in 1..Len(results) :
                        BeforeDash(TMDB(results[i]).first_air_date) = year}
         IN  IF year # <<>> /\ hits # {}
             THEN results[CHOOSE i \in hits : \A j \in hits : i <= j]
             ELSE results[1]

\* the position of the first entry with this tmdb_id, 0 when there is none
NoMatch(items, tmdb_id) == 0

MatchIndex(items, tmdb_id) ==
    LET hits == {i \in 1..Len(items) : items[i].tmdb_id = tmdb_id}
    IN  IF hits = {} THEN 0 ELSE CHOOSE i \in hits : \A j \in hits : i <= j

\* sorted(set((it.get("completed") or []) + seasons))
ReplaceCompleted(completed, seasons) == seasons

MergeCompleted(completed, seasons) ==
    SortedSeq(Range(completed) \cup Range(seasons))

\* if "user_id" not in it and user_id is not None: it["user_id"] = user_id
OverwriteOwner(owner, user_id) == IF user_id # NoUser THEN user_id ELSE owner

ClaimOwner(owner, user_id) ==
    IF owner = NoUser /\ user_id # NoUser THEN user_id ELSE owner

\* lines 271-283 alone: the entry is appended whether or not one matches
AddAlways(items, tmdb_id, title, year, seasons, user_id) ==
    [kind |-> "added",
     items |-> Append(items, [tmdb_id |-> tmdb_id, title |-> title, year |-> year,
                              completed |-> seasons, user_id |-> user_id])]

\* the update of a matching entry, or the append of a new one
AddOrUpdate(items, tmdb_id, title, year, seasons, user_id) ==
    LET i == MatchIndex(items, tmdb_id)
    IN  IF i # 0
        THEN [kind |-> "updated",
              items |-> [items EXCEPT ![i] =
                  [tmdb_id |-> items[i].tmdb_id,
                   title |-> title,
                   year |-> year,
                   completed |-> MergeCompleted(items[i].completed, seasons),
                   user_id |-> ClaimOwner(items[i].user_id, user_id)]]]
        ELSE [kind |-> "added",
              items |-> Append(items,
                  [tmdb_id |-> tmdb_id, title |-> title, year |-> year,
                   completed |-> seasons, user_id |-> user_id])]

\* what the command resolves to before the list is touched: the reply of an
\* early return, or the series and the seasons.  gw is what the catalog
\* answers: ok (the call succeeds) and results (of a search).
ResolveAdd(args, gw) ==
    IF args = <<>> THEN [kind |-> "usage", tmdb_id |-> NoId, seasons |-> <<>>]
    ELSE IF IsDigits(args[1])
    THEN IF gw.ok /\ ToInt(args[1]) \in Ids
         THEN [kind |-> "ok", tmdb_id |-> ToInt(args[1]),
               seasons |-> parse_seasons_string(Concat(Tail(args)))]
         ELSE [kind |-> "invalid_id", tmdb_id |-> NoId, seasons |-> <<>>]
    ELSE LET x == extract_title_year_and_seasons(args)
             r == find_series_by_title_year(gw.results, x.year)
         IN  IF x.title = <<>>
             THEN [kind |-> "bad_format", tmdb_id |-> NoId, seasons |-> <<>>]
             ELSE IF ~gw.ok
             THEN [kind |-> "raised", tmdb_id |-> NoId, seasons |-> <<>>]
             ELSE IF r = NoId
             THEN [kind |-> "not_found", tmdb_id |-> NoId, seasons |-> <<>>]
             ELSE [kind |-> "ok", tmdb_id |-> r, seasons |-> x.seasons]

\* add_series on the store db: the reply, whether it saves, and the store
add_series(db, cid, user_id, args, gw) ==
    LET g == get_items(db, cid)
        r == ResolveAdd(args, gw)
        m == AddOrUpdate(g.items, r.tmdb_id, TMDB(r.tmdb_id).name,
                         BeforeDash(TMDB(r.tmdb_id).first_air_date),
                         r.seasons, user_id)
    IN  IF g.raised THEN [kind |-> "raised", saved |-> FALSE, db |-> db]
        ELSE IF r.kind # "ok" THEN [kind |-> r.kind, saved |-> FALSE, db |-> db]
        ELSE IF g.isnone THEN [kind |-> "raised", saved |-> FALSE, db |-> db]
        ELSE [kind |-> m.kind, saved |-> TRUE,
              db |-> SetItems(g.db, cid, m.items)]

(***************************************************************************)
(* /borrartodo: borrartodo.                                                *)
(***************************************************************************)
\* it.get("user_id") != user_id
keep_item_owned_only(it, user_id) == it.user_id # user_id /\ it.user_id # NoUser

keep_item(it, user_id) == it.user_id # user_id

\* [it for it in items if it.get("user_id") != user_id]
RECURSIVE KeptItems(_, _)
KeptItems(items, user_id) ==
    IF items = <<>> THEN <<>>
    ELSE IF keep_item(Head(items), user_id)
         THEN <<Head(items)>> \o KeptItems(Tail(items), user_id)
         ELSE KeptItems(Tail(items), user_id)

borrartodo(db, cid, user_id) ==
    LET g == get_items(db, cid)
        new_items == KeptItems(g.items, user_id)
        deleted == Len(g.items) - Len(new_items)
    IN  IF g.raised THEN [kind |-> "raised", n |-> 0, saved |-> FALSE, db |-> db]
        ELSE IF user_id = NoUser
        THEN [kind |-> "no_user", n |-> 0, saved |-> FALSE, db |-> db]
        ELSE IF g.isnone
        THEN [kind |-> "raised", n |-> 0, saved |-> FALSE, db |-> db]
        ELSE IF deleted = 0
        THEN [kind |-> "nothing_own", n |-> 0, saved |-> FALSE, db |-> db]
        ELSE [kind |-> "bulk_deleted", n |-> deleted, saved |-> TRUE,
              db |-> SetItems(g.db, cid, new_items)]

(***************************************************************************)
(* Pages and keyboards.  A keyboard is what a message shows: kind (list |  *)
(* del | none), the chat, the page, the absolute position of its first     *)
(* control and the tmdb_id of the entry each control was rendered for.     *)
(***************************************************************************)
Min(a, b) == IF a < b THEN a ELSE b

\* the clamp without "if page > max_page: page = max_page"
ClampPageBelowOnly(total, page) == IF page < 0 THEN 0 ELSE page

\* max_page = (total - 1) // PAGE_SIZE; page clamped into [0, max_page]
ClampPage(total, page) ==
    LET max_page == (total - 1) \div PAGE_SIZE
    IN  IF page < 0 THEN 0 ELSE IF page > max_page THEN max_page ELSE page

PageStart(total, page) == ClampPage(total, page) * PAGE_SIZE
PageEnd(total, page) == Min(PageStart(total, page) + PAGE_SIZE, total)

NoKb == [kind |-> "none", cid |-> "none", page |-> 0, first |-> 0, ids |-> <<>>]

\* the controls delitem:i:page (make_delete_keyboard) or show:i
\* (make_list_keyboard) for i in range(start, end)
RenderKeyboard(kind, cid, items, page) ==
    IF Len(items) = 0 THEN NoKb
    ELSE [kind |-> kind, cid |-> cid,
          page |-> ClampPage(Len(items), page),
          first |-> PageStart(Len(items), page),
          ids |-> [k \in 1..(PageEnd(Len(items), page) - PageStart(Len(items), page))
                     |-> items[PageStart(Len(items), page) + k].tmdb_id]]

make_delete_keyboard(cid, items, page) == RenderKeyboard("del", cid, items, page)
make_list_keyboard(cid, items, page) == RenderKeyboard("list", cid, items, page)

\* the positions a keyboard has a control for
Controls(kb) == {i \in kb.first..(kb.first + Len(kb.ids) - 1) : TRUE}

\* the tmdb_id of the entry the control of position i was rendered for
ShownAt(kb, i) == kb.ids[i - kb.first + 1]

(***************************************************************************)
(* The delete and the show-details controls: delete_item, show_series.     *)
(***************************************************************************)
\* del items[idx], idx counted from 0
DelAt(items, idx) ==
    [k \in 1..(Len(items) - 1) |-> IF k <= idx THEN items[k] ELSE items[k + 1]]

\* delete_item with "if idx < len(items)" for "if 0 <= idx < len(items)": a
\* negative idx counts from the end of the list, as items[idx] does
delete_item_wrapping(db, cid, idx, page) ==
    LET g == get_items(db, cid)
        at == IF idx < 0 THEN idx + Len(g.items) ELSE idx
        left == DelAt(g.items, at)
    IN  IF g.raised \/ g.isnone
        THEN [kind |-> "raised", id |-> NoId, saved |-> FALSE, db |-> db, kb |-> NoKb]
        ELSE IF 0 <= at /\ at < Len(g.items)
        THEN [kind |-> "deleted", id |-> g.items[at + 1].tmdb_id, saved |-> TRUE,
              db |-> SetItems(g.db, cid, left),
              kb |-> make_delete_keyboard(cid, left, page)]
        ELSE [kind |-> "gone", id |-> NoId, saved |-> FALSE, db |-> db,
              kb |-> make_delete_keyboard(cid, g.items, 0)]

\* delete_item on the store db: reply, whether it saves, the store, and the
\* keyboard the message is edited to
delete_item(db, cid, idx, page) ==
    LET g == get_items(db, cid)
        left == DelAt(g.items, idx)
    IN  IF g.raised \/ (g.isnone /\ 0 <= idx)
        THEN [kind |-> "raised", id |-> NoId, saved |-> FALSE, db |-> db, kb |-> NoKb]
        ELSE IF 0 <= idx /\ idx < Len(g.items)
        THEN [kind |-> "deleted", id |-> g.items[idx + 1].tmdb_id, saved |-> TRUE,
              db |-> SetItems(g.db, cid, left),
              kb |-> make_delete_keyboard(cid, left, page)]
        ELSE [kind |-> "gone", id |-> NoId, saved |-> FALSE, db |-> db,
              kb |-> make_delete_keyboard(cid, g.items, 0)]

\* show_series on the store db: the reply (the series shown, "no longer
\* exists", or the exception of a failed catalog call)
show_series(db, cid, idx, gw_ok) ==
    LET g == get_items(db, cid)
    IN  IF g.raised \/ (g.isnone /\ 0 <= idx) THEN [kind |-> "raised", id |-> NoId]
        ELSE IF idx < 0 \/ idx >= Len(g.items) THEN [kind |-> "gone", id |-> NoId]
        ELSE IF ~gw_ok THEN [kind |-> "raised", id |-> NoId]
        ELSE [kind |-> "shown", id |-> g.items[idx + 1].tmdb_id]

(***************************************************************************)
(* State.                                                                  *)
(***************************************************************************)
Msgs == {"m1", "m2"}
NoMsg == "none"

IdleSlot == [pc |-> "idle", cid |-> "none", idx |-> 0, page |-> 0,
             msg |-> NoMsg, snap |-> AbsentFile]

Reply(kind, id, n) == [kind |-> kind, id |-> id, n |-> n]
NoReply == Reply("none", NoId, 0)

NoMem == [op |-> "none", cid |-> "none", raised |-> FALSE, isnone |-> FALSE,
          db |-> EmptyDb]

RECURSIVE CountEntries(_, _)
CountEntries(db, keys) ==
    IF keys = {} THEN 0
    ELSE LET k == CHOOSE x \in keys : TRUE
         IN  Len(db[k].items) + CountEntries(db, keys \ {k})

TotalEntries(db) == CountEntries(db, DOMAIN db)

Init ==
    /\ disk = AbsentFile
    /\ hs = [h \in Handlers |-> IdleSlot]
    /\ kbs = [m \in Msgs |-> NoKb]
    /\ sent = NoReply
    /\ serial = EmptyDb
    /\ mem = NoMem

\* the store of the document on disk
Store == load_db(disk).db

\* the list of a chat in the store db, empty when the chat has none
ItemsOf(db, c) == IF c \in DOMAIN db THEN db[c].items ELSE <<>>

\* the save of a handler that ran on the store it loaded, and the same
\* operation in the history of completed mutations
Commit(r, rs) ==
    /\ disk' = IF r.saved THEN save_db(r.db) ELSE disk
    /\ serial' = IF r.saved THEN rs.db ELSE serial

(***************************************************************************)
(* Handlers that run from load_db to save_db without an await.             *)
(***************************************************************************)
AddSeries(c, u, cmd, cap) ==
    \E r \in {add_series(Store, c, u, cmd.args, cmd.gw)} :
    \E rs \in {IF serial = Store THEN r
                ELSE add_series(serial, c, u, cmd.args, cmd.gw)} :
        /\ TotalEntries(r.db) <= cap
        /\ Commit(r, rs)
        /\ sent' = Reply(r.kind, NoId, 0)
        /\ UNCHANGED <<hs, kbs, mem>>

Borrartodo(c, u) ==
    \E r \in {borrartodo(Store, c, u)} :
    \E rs \in {IF serial = Store THEN r ELSE borrartodo(serial, c, u)} :
        /\ Commit(r, rs)
        /\ sent' = Reply(r.kind, NoId, r.n)
        /\ UNCHANGED <<hs, kbs, mem>>

(***************************************************************************)
(* delete_item: "await q.answer()" comes before load_db, so a click waits  *)
(* in hs while other handlers run.                                         *)
(***************************************************************************)
\* whether load_db is called after the await of q.answer()
delete_item_loads_before_answer == FALSE

delete_item_loads_after_answer == TRUE

\* a click on a control delitem:i of a keyboard that is not followed in kbs
ClickDeleteAny(h, c, i) ==
    /\ hs[h].pc = "idle"
    /\ hs' = [hs EXCEPT ![h] =
                [pc |-> "answered", cid |-> c, idx |-> i, page |-> 0,
                 msg |-> NoMsg,
                 snap |-> IF delete_item_loads_after_answer
                          THEN AbsentFile ELSE disk]]
    /\ UNCHANGED <<disk, kbs, sent, serial, mem>>

DeleteBody(h) ==
    /\ hs[h].pc = "answered"
    /\ \E r \in {delete_item(load_db(IF delete_item_loads_after_answer
                                    THEN disk ELSE hs[h].snap).db,
                            hs[h].cid, hs[h].idx, hs[h].page)},
       rs \in {delete_item(serial, hs[h].cid, hs[h].idx, hs[h].page)} :
        /\ Commit(r, rs)
        /\ sent' = Reply(r.kind, r.id, 0)
        /\ kbs' = IF hs[h].msg \in Msgs /\ r.kind # "raised"
                  THEN [kbs EXCEPT ![hs[h].msg] = r.kb] ELSE kbs
        /\ hs' = [hs EXCEPT ![h] = IdleSlot]
        /\ UNCHANGED mem

(***************************************************************************)
(* The commands of Spec.                                                   *)
(***************************************************************************)
D1 == <<"1">>
D2 == <<"2">>
D3 == <<"3">>
S1S2 == <<"S", "1", "S", "2">>
S2S3 == <<"s", "2", "S", "3">>

Gw(ok, results) == [ok |-> ok, results |-> results]

Cmd(args, gw) == [args |-> args, gw |-> gw]

\* one command by id and two by title; the search answers both series of
\* the shared title, the newer first
SpecCommands ==
    { Cmd(<<D1, S1S2>>, Gw(TRUE, <<>>)),
      Cmd(<<<<"a">>, <<"B">>, S1S2>>, Gw(TRUE, <<2, 1>>)),
      Cmd(<<<<"A">>, <<"b">>, <<"2", "0", "0", "4">>, S2S3>>, Gw(TRUE, <<2, 1>>)) }

Next ==
    \/ \E c \in Chats, u \in MaybeUsers, cmd \in SpecCommands :
          AddSeries(c, u, cmd, MaxEntries)
    \/ \E c \in Chats, u \in MaybeUsers : Borrartodo(c, u)

Spec == Init /\ [][Next]_vars

(***************************************************************************)
(* SpecConc: the mutating handlers, interleaved at their awaits.           *)
(***************************************************************************)
ConcCommands ==
    { Cmd(<<D1, S1S2>>, Gw(TRUE, <<>>)),
      Cmd(<<D2, S1S2>>, Gw(TRUE, <<>>)) }

NextConc ==
    \/ \E c \in Chats, cmd \in ConcCommands : AddSeries(c, "u7", cmd, MaxEntries)
    \/ \E c \in Chats : Borrartodo(c, "u7")
    \/ \E h \in Handlers, c \in Chats, i \in 0..(MaxEntries - 1) :
          ClickDeleteAny(h, c, i)
    \/ \E h \in Handlers : DeleteBody(h)

SpecConc == Init /\ [][NextConc]_vars

(***************************************************************************)
(* SpecUI: one chat, its keyboards and the clicks on them.  The dispatcher *)
(* runs one handler at a time (ApplicationBuilder's default), so here a    *)
(* command or a click is one step.                                         *)
(***************************************************************************)
\* /lista: list_series, page 0
ListSeries(m, c) ==
    \E g \in {get_items(load_db(disk).db, c)} :
        /\ ~g.raised
        /\ IF g.items = <<>>
           THEN sent' = Reply("empty", NoId, 0) /\ kbs' = kbs
           ELSE /\ sent' = Reply("listed", NoId, 0)
                /\ kbs' = [kbs EXCEPT ![m] = make_list_keyboard(c, g.items, 0)]
        /\ UNCHANGED <<disk, hs, serial, mem>>

\* /borrar: borrar
Borrar(m, c) ==
    \E g \in {get_items(load_db(disk).db, c)} :
        /\ ~g.raised
        /\ IF g.items = <<>>
           THEN sent' = Reply("empty", NoId, 0) /\ kbs' = kbs
           ELSE /\ sent' = Reply("choose", NoId, 0)
                /\ kbs' = [kbs EXCEPT ![m] = make_delete_keyboard(c, g.items, 0)]
        /\ UNCHANGED <<disk, hs, serial, mem>>

\* a click on the control delitem:i:page of the keyboard of message m
DeleteItem(m, i) ==
    /\ kbs[m].kind = "del"
    /\ i \in Controls(kbs[m])
    /\ \E r \in {delete_item(load_db(disk).db, kbs[m].cid, i, kbs[m].page)},
          rs \in {delete_item(serial, kbs[m].cid, i, kbs[m].page)} :
          /\ Commit(r, rs)
          /\ sent' = Reply(r.kind, NoId, 0)
          /\ kbs' = IF r.kind # "raised" THEN [kbs EXCEPT ![m] = r.kb] ELSE kbs
          /\ UNCHANGED <<hs, mem>>

\* a click on the control show:i of the keyboard of message m
ShowSeries(m, i, gw_ok) ==
    /\ kbs[m].kind = "list"
    /\ i \in Controls(kbs[m])
    /\ sent' = Reply(show_series(load_db(disk).db, kbs[m].cid, i, gw_ok).kind,
                     NoId, 0)
    /\ UNCHANGED <<disk, hs, kbs, serial, mem>>

UICommands ==
    { Cmd(<<D1, S1S2>>, Gw(TRUE, <<>>)),
      Cmd(<<D2, S1S2>>, Gw(TRUE, <<>>)),
      Cmd(<<D3, S1S2>>, Gw(TRUE, <<>>)) }

NextUI ==
    \/ \E cmd \in UICommands : AddSeries("10", "u7", cmd, MaxShown)
    \/ \E m \in Msgs : ListSeries(m, "10")
    \/ \E m \in Msgs : Borrar(m, "10")
    \/ \E m \in Msgs, i \in 0..(MaxShown - 1) : DeleteItem(m, i)
    \/ \E m \in Msgs, i \in 0..(MaxShown - 1), ok \in BOOLEAN : ShowSeries(m, i, ok)

SpecUI == Init /\ [][NextUI]_vars

(***************************************************************************)
(* SpecLoad: load_db and get_items on any content of the document.         *)
(***************************************************************************)
Legacy(id) == [tmdb_id |-> id, title |-> TMDB(id).name,
               year |-> BeforeDash(TMDB(id).first_air_date),
               completed |-> <<1>>, user_id |-> NoUser]

SampleLists == {<<>>, <<Legacy(1)>>, <<Legacy(3), Legacy(1)>>}

ChatShapes ==
    {[shape |-> "list", key |-> "none", items |-> l] : l \in SampleLists}
    \cup {ChatDict(l) : l \in SampleLists}
    \cup {[shape |-> "dict", key |-> k, items |-> <<>>] : k \in {"missing", "null"}}
    \cup {[shape |-> s, key |-> "none", items |-> <<>>] : s \in {"null", "scalar"}}

Mappings == UNION {[D -> ChatShapes] : D \in SUBSET Chats}

Documents ==
    {AbsentFile, MalformedFile}
    \cup {[kind |-> "json", top |-> t, val |-> EmptyDb] : t \in {"list", "scalar", "null"}}
    \cup {[kind |-> "json", top |-> "dict", val |-> v] : v \in Mappings}

InitLoad ==
    /\ disk \in Documents
    /\ hs = [h \in Handlers |-> IdleSlot]
    /\ kbs = [m \in Msgs |-> NoKb]
    /\ sent = NoReply
    /\ serial = EmptyDb
    /\ mem = NoMem

LoadDb ==
    /\ mem.op = "none"
    /\ \E l \in {load_db(disk)} :
          mem' = [op |-> "load", cid |-> "none", raised |-> l.raised,
                  isnone |-> FALSE, db |-> l.db]
    /\ UNCHANGED <<disk, hs, kbs, sent, serial>>

GetItems(c) ==
    /\ mem.op = "load"
    /\ ~mem.raised
    /\ \E g \in {get_items(mem.db, c)} :
          mem' = [op |-> "get", cid |-> c, raised |-> g.raised,
                  isnone |-> g.isnone, db |-> g.db]
    /\ UNCHANGED <<disk, hs, kbs, sent, serial>>

NextLoad ==
    \/ LoadDb
    \/ \E c \in Chats : GetItems(c)

SpecLoad == InitLoad /\ [][NextLoad]_vars

(***************************************************************************)
(* Properties.                                                             *)
(***************************************************************************)
Completed(it) == Range(it.completed)

\* the positions of items whose entry has this tmdb_id
PositionsOf(items, id) == {i \in 1..Len(items) : items[i].tmdb_id = id}

\* C1: starting from the empty store, after any sequence of add commands
\* (and of /borrartodo), no chat's list holds two entries with the same
\* tmdb_id.
C1_UniqueIds ==
    \A c \in DOMAIN Store :
        \A i, j \in 1..Len(Store[c].items) :
            i # j => Store[c].items[i].tmdb_id # Store[c].items[j].tmdb_id

\* an add has matched an entry of a list of two: it was merged, not appended
C1_Witness ==
    /\ sent.kind = "updated"
    /\ \E c \in DOMAIN Store : Len(Store[c].items) = 2

\* C2: for every add command issued in a reachable store: when it matches an
\* existing entry, that entry's completed set afterwards is its completed set
\* before united with the seasons parsed from the command, and no other entry
\* changes its completed set; when it creates an entry, the entry is appended
\* with exactly the parsed seasons.  S1S2 parses to {1,2}, S2S3 to {2,3}.
C2_UnionOnAdd ==
    /\ Range(parse_seasons_string(S1S2)) = {1, 2}
    /\ Range(parse_seasons_string(S2S3)) = {2, 3}
    /\ \A c \in Chats, u \in MaybeUsers, cmd \in SpecCommands :
        LET before == ItemsOf(Store, c)
            q == ResolveAdd(cmd.args, cmd.gw)
            r == add_series(Store, c, u, cmd.args, cmd.gw)
            after == ItemsOf(r.db, c)
            hits == PositionsOf(before, q.tmdb_id)
        IN  q.kind = "ok" =>
              IF hits # {}
              THEN /\ r.kind = "updated"
                   /\ Len(after) = Len(before)
                   /\ \E i \in hits :
                        /\ Completed(after[i]) =
                              Completed(before[i]) \cup Range(q.seasons)
                        /\ \A j \in 1..Len(before) :
                              j # i => Completed(after[j]) = Completed(before[j])
              ELSE /\ r.kind = "added"
                   /\ Len(after) = Len(before) + 1
                   /\ Completed(after[Len(after)]) = Range(q.seasons)
                   /\ \A j \in 1..Len(before) :
                         Completed(after[j]) = Completed(before[j])

\* an entry added with S1S2 and added again with S2S3 holds {1,2,3}
C2_Witness ==
    /\ sent.kind = "updated"
    /\ \E c \in DOMAIN Store : \E i \in 1..Len(Store[c].items) :
          Store[c].items[i].completed = <<1, 2, 3>>

\* C3: under every interleaving of add_series, borrartodo and delete_item at
\* their awaits, the document on disk is the store that the completed
\* mutations give when applied one after the other in the order of their
\* saves: no save drops the change of an earlier one.
C3_NoLostUpdate == Store = serial

\* a delete has been saved while another click still waits at its await, and
\* entries of earlier adds are in the store
C3_Witness ==
    /\ sent.kind = "deleted"
    /\ \E h \in Handlers : hs[h].pc = "answered"
    /\ \E c \in DOMAIN Store : Store[c].items # <<>>

\* C4: a click on a control show:i on screen never shows another entry than
\* the one rendered at position i: show_series shows that entry or reports
\* that the series no longer exists.
C4_ShowResolvesRendered ==
    \A m \in Msgs :
        kbs[m].kind = "list" =>
            \A i \in Controls(kbs[m]) :
                LET r == show_series(Store, kbs[m].cid, i, TRUE)
                IN  r.kind = "shown" => r.id = ShownAt(kbs[m], i)

\* C5: a click on a control delitem:i on screen never deletes another entry
\* than the one rendered at position i: delete_item removes that entry or
\* removes nothing and reports that it no longer exists.
C5_DeleteResolvesRendered ==
    \A m \in Msgs :
        kbs[m].kind = "del" =>
            \A i \in Controls(kbs[m]) :
                LET r == delete_item(Store, kbs[m].cid, i, kbs[m].page)
                IN  /\ r.kind = "deleted" => r.id = ShownAt(kbs[m], i)
                    /\ r.kind # "deleted" => ~r.saved /\ r.kind = "gone"

\* C6: an add of a series whose tmdb_id is not in the chat's list but whose
\* normalized title equals that of an entry of the list merges into that
\* entry: no entry is appended and the list keeps its length.
C6_MergeByTitle ==
    \A c \in Chats, u \in MaybeUsers, cmd \in SpecCommands :
        LET before == ItemsOf(Store, c)
            q == ResolveAdd(cmd.args, cmd.gw)
            r == add_series(Store, c, u, cmd.args, cmd.gw)
        IN  (/\ q.kind = "ok"
             /\ PositionsOf(before, q.tmdb_id) = {}
             /\ \E i \in 1..Len(before) :
                   normalize(before[i].title) = normalize(TMDB(q.tmdb_id).name))
            => Len(ItemsOf(r.db, c)) = Len(before)

\* C7: for every add command issued in a reachable store: a new entry gets
\* the adding user as owner (none when the user is not identified); an add
\* matching an entry without owner gives it the adding user; an add matching
\* an entry with an owner leaves that owner; no other entry changes owner.
C7_OwnerClaimedOnce ==
    \A c \in Chats, u \in MaybeUsers, cmd \in SpecCommands :
        LET before == ItemsOf(Store, c)
            q == ResolveAdd(cmd.args, cmd.gw)
            r == add_series(Store, c, u, cmd.args, cmd.gw)
            after == ItemsOf(r.db, c)
        IN  /\ r.kind = "added" => after[Len(after)].user_id = u
            /\ r.kind \in {"added", "updated"} =>
                 \A i \in 1..Len(before) :
                    /\ before[i].user_id # NoUser =>
                          after[i].user_id = before[i].user_id
                    /\ before[i].user_id = NoUser =>
                          after[i].user_id =
                             IF before[i].tmdb_id = q.tmdb_id THEN u ELSE NoUser

\* an add has matched an entry of a list where one entry has an owner and
\* another has none
C7_Witness ==
    /\ sent.kind = "updated"
    /\ \E c \in DOMAIN Store : \E i, j \in 1..Len(Store[c].items) :
          /\ Store[c].items[i].user_id \in Users
          /\ Store[c].items[j].user_id = NoUser

\* C8: /borrartodo of user u in chat c leaves the list of c restricted to the
\* entries whose owner is not u, in the same order (entries without owner
\* and entries of other users stay), reports the number of entries removed,
\* and leaves every other chat's list as it was.
C8_RemoveByOwner ==
    \A c \in Chats, u \in Users :
        LET before == ItemsOf(Store, c)
            r == borrartodo(Store, c, u)
            after == ItemsOf(r.db, c)
        IN  /\ after = SelectSeq(before, LAMBDA it : it.user_id # u)
            /\ r.n = Len(before) - Len(after)
            /\ r.kind = IF r.n = 0 THEN "nothing_own" ELSE "bulk_deleted"
            /\ \A d \in Chats \ {c} : ItemsOf(r.db, d) = ItemsOf(Store, d)

\* a /borrartodo removed entries and left an entry of another owner or of
\* no owner
C8_Witness ==
    /\ sent.kind = "bulk_deleted"
    /\ \E c \in DOMAIN Store : Store[c].items # <<>>

\* C9: whatever the document holds, every chat key of the mapping that
\* load_db returns has a mapping with a non-null items list as value, and
\* get_items on any chat then returns a list.
C9_ItemsAlwaysList ==
    /\ mem.op \in {"load", "get"} =>
          \A k \in DOMAIN mem.db :
              mem.db[k].shape = "dict" /\ mem.db[k].key = "list"
    /\ mem.op = "get" => ~mem.raised /\ ~mem.isnone

\* C10: load_db never raises; when there is no document, or it does not
\* parse, or its top level is not a mapping, load_db returns the empty
\* mapping, on which get_items gives every chat the empty list.
C10_LoadNeverRaises ==
    mem.op = "load" =>
        /\ ~mem.raised
        /\ (disk.kind # "json" \/ disk.top # "dict") =>
              /\ mem.db = EmptyDb
              /\ \A c \in Chats :
                    /\ ~get_items(mem.db, c).raised
                    /\ get_items(mem.db, c).items = <<>>

\* load_db has returned for a document that does not parse
C10_Witness == mem.op = "load" /\ disk = MalformedFile

\* C11: a show-details or a delete control whose position is negative or not
\* below the length of the freshly loaded list is answered "no longer
\* exists": the handler raises nothing, selects no entry and saves nothing,
\* so the document stays as it was.
C11_OutOfRangeReported ==
    \A c \in Chats, idx \in (0 - 2)..(MaxShown + 1), ok \in BOOLEAN :
        LET n == Len(ItemsOf(Store, c))
            s == show_series(Store, c, idx, ok)
            d == delete_item(Store, c, idx, 0)
        IN  (idx < 0 \/ idx >= n) =>
                /\ s.kind = "gone" /\ s.id = NoId
                /\ d.kind = "gone" /\ d.id = NoId
                /\ ~d.saved /\ d.db = Store

\* a click on a control of a keyboard rendered before the list shrank was
\* answered "no longer exists", and a list keyboard still shows a position
\* past the end of the list
C11_Witness ==
    /\ sent.kind = "gone"
    /\ ItemsOf(Store, "10") # <<>>
    /\ \E m \in Msgs :
          /\ kbs[m].kind = "list"
          /\ kbs[m].first + Len(kbs[m].ids) > Len(ItemsOf(Store, "10"))

(***************************************************************************)
(* SpecAdd: /add by id with every kind of season argument, one command     *)
(* after the other.  mem keeps the command just run and the store it       *)
(* found: [op, cid, user, args, db, again], again when that command        *)
(* repeats the one before it.                                              *)
(***************************************************************************)
S0 == <<"S", "0">>
S00S3 == <<"s", "0", "0", "S", "3">>
Sx == <<"S", "x">>

AddCommands ==
    { Cmd(<<>>, Gw(TRUE, <<>>)),
      Cmd(<<S1S2>>, Gw(TRUE, <<2, 1>>)),
      Cmd(<<D1, S1S2>>, Gw(TRUE, <<>>)),
      Cmd(<<D1, S0>>, Gw(TRUE, <<>>)),
      Cmd(<<D1, Sx>>, Gw(TRUE, <<>>)),
      Cmd(<<D2, S00S3>>, Gw(TRUE, <<>>)),
      Cmd(<<D2, <<"2">>, S1S2>>, Gw(TRUE, <<>>)) }

AddLogged(c, u, cmd) ==
    \E r \in {add_series(Store, c, u, cmd.args, cmd.gw)} :
        /\ TotalEntries(r.db) <= MaxEntries
        /\ Commit(r, r)
        /\ sent' = Reply(r.kind, NoId, 0)
        /\ mem' = [op |-> "add", cid |-> c, user |-> u, args |-> cmd.args,
                   db |-> Store,
                   again |-> /\ mem.op = "add" /\ mem.cid = c
                             /\ mem.user = u /\ mem.args = cmd.args]
        /\ UNCHANGED <<hs, kbs>>

NextAdd == \E c \in Chats, cmd \in AddCommands : AddLogged(c, "u7", cmd)

SpecAdd == Init /\ [][NextAdd]_vars

\* s is made of tokens S<number> and nothing else
RECURSIVE IsSeasonTokens(_)
IsSeasonTokens(s) ==
    \/ s = <<>>
    \/ /\ s[1] \in {"s", "S"}
       /\ DigitRun(s, 2) # <<>>
       /\ IsSeasonTokens(SubSeq(s, 2 + Len(DigitRun(s, 2)), Len(s)))

\* the command has no argument, no title to search for, or, after an id,
\* season text that is not a run of tokens S<number>
ValidationError(args) ==
    \/ args = <<>>
    \/ /\ args # <<>> /\ IsDigits(args[1])
       /\ ~IsSeasonTokens(Concat(Tail(args)))
    \/ /\ args # <<>> /\ ~IsDigits(args[1])
       /\ extract_title_year_and_seasons(args).title = <<>>

\* C12: an /add with a validation error (no argument, an empty search
\* query, season text that does not parse as tokens S<number>) is answered
\* with a corrective message and the store stays as the command found it.
C12_ValidationNeverMutates ==
    (mem.op = "add" /\ ValidationError(mem.args)) =>
        /\ sent.kind \in {"usage", "bad_format"}
        /\ Store = mem.db

\* C19: the same /add (same chat, same id, same seasons) twice in a row: the
\* second leaves every completed set and the length of the list as the first
\* left them.
C19_AddTwice ==
    (mem.op = "add" /\ mem.again) =>
        LET before == ItemsOf(mem.db, mem.cid)
            after == ItemsOf(Store, mem.cid)
        IN  /\ Len(after) = Len(before)
            /\ \A i \in 1..Len(after) :
                  /\ after[i].tmdb_id = before[i].tmdb_id
                  /\ Completed(after[i]) = Completed(before[i])

\* the second of two equal commands found its entry and updated it
C19_Witness ==
    /\ mem.op = "add" /\ mem.again
    /\ sent.kind = "updated"
    /\ ItemsOf(Store, mem.cid) # <<>>

\* C20: in every store reached from the empty one by /add commands, with
\* any season tokens, every completed set holds positive integers only.
C20_CompletedPositive ==
    \A c \in DOMAIN Store : \A i \in 1..Len(ItemsOf(Store, c)) :
        \A n \in Completed(ItemsOf(Store, c)[i]) : n > 0

(***************************************************************************)
(* The progress engine: is_future, is_really_airing,                       *)
(* emitted_season_numbers, mini_progress, text_progress.                   *)
(*   details: [seasons: list of [season_number, air_date],                 *)
(*             next_episode_to_air: [air_date, season_number]]             *)
(* A season_number that is None is the number None below; an air_date that *)
(* is None or "" is the empty string (the code tests both with "if ad");   *)
(* next_episode_to_air None or {} is NoEpisode.  A date is <<y, m, d>>.    *)
(***************************************************************************)
None == 0 - 1
NoDate == <<>>
NoEpisode == [air_date |-> NoDate, season_number |-> None]

\* s.split("-")
RECURSIVE SplitDash(_)
SplitDash(s) ==
    IF \A i \in 1..Len(s) : s[i] # "-" THEN <<s>>
    ELSE <<BeforeDash(s)>> \o SplitDash(SubSeq(s, Len(BeforeDash(s)) + 2, Len(s)))

IsLeap(y) == (y % 4 = 0 /\ y % 100 # 0) \/ y % 400 = 0

DaysIn(y, m) ==
    IF m = 2 THEN (IF IsLeap(y) THEN 29 ELSE 28)
    ELSE IF m \in {4, 6, 9, 11} THEN 30 ELSE 31

\* datetime.strptime(dstr, "%Y-%m-%d").date(): the date, or ValueError
strptime(dstr) ==
    LET p == SplitDash(dstr)
        wellformed == /\ Len(p) = 3
                      /\ \A i \in 1..3 : IsDigits(p[i])
                      /\ Len(p[1]) = 4 /\ Len(p[2]) <= 2 /\ Len(p[3]) <= 2
        y == ToInt(p[1])
        m == ToInt(p[2])
        d == ToInt(p[3])
    IN  IF wellformed /\ y >= 1 /\ m \in 1..12 /\ d >= 1 /\ d <= DaysIn(y, m)
        THEN [ok |-> TRUE, date |-> <<y, m, d>>]
        ELSE [ok |-> FALSE, date |-> <<0, 0, 0>>]

\* a < b for dates
DateLT(a, b) ==
    \/ a[1] < b[1]
    \/ a[1] = b[1] /\ a[2] < b[2]
    \/ a[1] = b[1] /\ a[2] = b[2] /\ a[3] < b[3]

\* is_future with ">=" for ">"
is_future_or_today(dstr, today) ==
    /\ dstr # NoDate
    /\ strptime(dstr).ok
    /\ ~DateLT(strptime(dstr).date, today)

is_future(dstr, today) ==
    /\ dstr # NoDate
    /\ strptime(dstr).ok
    /\ DateLT(today, strptime(dstr).date)

is_really_airing(details, today) ==
    LET air == details.next_episode_to_air.air_date
    IN  air # NoDate /\ is_future(air, today)

\* "if sn is None: continue" for "if sn in (None, 0): continue"
skip_season_none_only(sn) == sn = None

\* if sn in (None, 0): continue
skip_season(sn) == sn \in {None, 0}

\* the body of the loop over seasons: whether s is added to emitted
season_emitted(s, today) ==
    /\ ~skip_season(s.season_number)
    /\ s.air_date # NoDate
    /\ strptime(s.air_date).ok
    /\ ~DateLT(today, strptime(s.air_date).date)

emitted_season_numbers(details, today) ==
    LET seasons == details.seasons
        aired == {seasons[i].season_number :
                     i \in {j \in 1..Len(seasons) : season_emitted(seasons[j], today)}}
        current == details.next_episode_to_air.season_number
        airing == IF is_really_airing(details, today)
                     /\ current # None /\ current # 0
                  THEN {current} ELSE {}
    IN  SortedSeq(aired \cup airing)

\* one mark per emitted season: the season, whether it is in completed,
\* whether it is the current one
mini_progress(emitted_nums, completed, current) ==
    [i \in 1..Len(emitted_nums) |->
        [n |-> emitted_nums[i],
         have |-> emitted_nums[i] \in Range(completed),
         cur |-> current # None /\ current # 0 /\ emitted_nums[i] = current]]

\* text_progress without "len(emitted_nums) > 0 and"
text_progress_vacuous(emitted_nums, completed) ==
    IF \A i \in 1..Len(emitted_nums) : emitted_nums[i] \in Range(completed)
    THEN "tenemos_todo" ELSE "nos_queda"

text_progress(emitted_nums, completed) ==
    IF /\ Len(emitted_nums) > 0
       /\ \A i \in 1..Len(emitted_nums) : emitted_nums[i] \in Range(completed)
    THEN "tenemos_todo" ELSE "nos_queda"

\* build_list_entry on the details d the catalog returned for it
build_list_entry(it, d, today) ==
    LET emitted == emitted_season_numbers(d, today)
        current == IF is_really_airing(d, today)
                   THEN d.next_episode_to_air.season_number ELSE None
    IN  [kind |-> "entry", title |-> it.title, year |-> it.year,
         emitted |-> emitted,
         progress |-> text_progress(emitted, it.completed),
         mini |-> mini_progress(emitted, it.completed, current)]

(***************************************************************************)
(* SpecProgress: build_list_entry on catalog details of every kind, on two *)
(* days.  mem holds the call: [op, it, details, today, entry].             *)
(***************************************************************************)
MaxSeasons == 2   \* season entries in the details of a series

D20251231 == <<"2", "0", "2", "5", "-", "1", "2", "-", "3", "1">>
D20261102 == <<"2", "0", "2", "6", "-", "1", "1", "-", "0", "2">>
D20261103 == <<"2", "0", "2", "6", "-", "1", "1", "-", "0", "3">>
D20261104 == <<"2", "0", "2", "6", "-", "1", "1", "-", "0", "4">>
D20270101 == <<"2", "0", "2", "7", "-", "0", "1", "-", "0", "1">>
D20261301 == <<"2", "0", "2", "6", "-", "1", "3", "-", "0", "1">>

Todays == {<<2026, 11, 3>>, <<2026, 12, 31>>}

Season(sn, ad) == [season_number |-> sn, air_date |-> ad]

SeasonEntries ==
    { Season(0, D20261102), Season(None, D20261102),
      Season(1, D20251231), Season(1, D20261104),
      Season(2, D20261103), Season(2, NoDate), Season(2, D20261301),
      Season(3, D20270101) }

SeasonLists == UNION {[1..n -> SeasonEntries] : n \in 0..MaxSeasons}

NextEpisodes ==
    { NoEpisode,
      [air_date |-> D20261104, season_number |-> 3],
      [air_date |-> D20261103, season_number |-> 3],
      [air_date |-> D20261104, season_number |-> 0],
      [air_date |-> D20261104, season_number |-> 1],
      [air_date |-> D20270101, season_number |-> None],
      [air_date |-> D20261301, season_number |-> 2] }

CompletedLists == {<<>>, <<1, 2>>, <<1, 2, 3>>}

InitProgress ==
    /\ disk = AbsentFile
    /\ hs = [h \in Handlers |-> IdleSlot]
    /\ kbs = [m \in Msgs |-> NoKb]
    /\ sent = NoReply
    /\ serial = EmptyDb
    /\ \E l \in SeasonLists, ne \in NextEpisodes, cs \in CompletedLists,
          t \in Todays :
          mem = [op |-> "details",
                 it |-> [Legacy(1) EXCEPT !.completed = cs],
                 details |-> [seasons |-> l, next_episode_to_air |-> ne],
                 today |-> t,
                 entry |-> [kind |-> "none"]]

BuildListEntry ==
    /\ mem.op = "details"
    /\ mem' = [mem EXCEPT !.op = "entry",
                          !.entry = build_list_entry(mem.it, mem.details, mem.today)]
    /\ UNCHANGED <<disk, hs, kbs, sent, serial>>

NextProgress == BuildListEntry

SpecProgress == InitProgress /\ [][NextProgress]_vars

\* the season entries of the details in mem
SeasonsIn == Range(mem.details.seasons)

NextEp == mem.details.next_episode_to_air

\* the non-zero season numbers of the entries whose air date is on or before
\* today
AiredOnOrBefore ==
    {s.season_number : s \in
        {x \in SeasonsIn : /\ x.season_number # None /\ x.season_number # 0
                           /\ x.air_date # NoDate /\ strptime(x.air_date).ok
                           /\ ~DateLT(mem.today, strptime(x.air_date).date)}}

\* the next episode has an air date strictly later than today
AirsLater ==
    /\ NextEp.air_date # NoDate /\ strptime(NextEp.air_date).ok
    /\ DateLT(mem.today, strptime(NextEp.air_date).date)

Ascending(s) == \A i \in 1..(Len(s) - 1) : s[i] < s[i + 1]

\* C16: emitted_season_numbers never returns 0, whatever the details: not
\* for a season entry 0, not for a next episode of season 0 while airing.
C16_NoSeasonZero ==
    mem.op = "entry" => 0 \notin Range(mem.entry.emitted)

\* an aired season entry 0 and an airing next episode of season 0 went in
C16_Witness ==
    /\ mem.op = "entry"
    /\ Season(0, D20261102) \in SeasonsIn
    /\ NextEp.season_number = 0 /\ AirsLater
    /\ mem.entry.emitted # <<>>

\* C17, with the season of the next episode counted only when it is not 0:
\* emitted_season_numbers returns, ascending and without duplicates, the
\* non-zero season numbers aired on or before today, plus the non-zero
\* season of the next episode exactly when that episode airs after today.
C17_EmittedExact ==
    mem.op = "entry" =>
        /\ Ascending(mem.entry.emitted)
        /\ Range(mem.entry.emitted) =
              AiredOnOrBefore \cup
              (IF AirsLater /\ NextEp.season_number \notin {None, 0}
               THEN {NextEp.season_number} ELSE {})

\* C17 as stated: the season number of the next episode, whatever it is, is
\* in the result when that episode airs after today.
C17_EmittedAsStated ==
    mem.op = "entry" =>
        /\ Ascending(mem.entry.emitted)
        /\ Range(mem.entry.emitted) =
              AiredOnOrBefore \cup
              (IF AirsLater /\ NextEp.season_number # None
               THEN {NextEp.season_number} ELSE {})

\* seasons aired before today and today, and a next episode of a later
\* season airing tomorrow
C17_Witness ==
    /\ mem.op = "entry"
    /\ mem.today = <<2026, 11, 3>>
    /\ mem.details.seasons = <<Season(2, D20261103), Season(1, D20251231)>>
    /\ NextEp = [air_date |-> D20261104, season_number |-> 3]
    /\ mem.entry.emitted = <<1, 2, 3>>

\* C18: text_progress says "complete" exactly when emitted is not empty
\* and every emitted season is completed; emitted {1,2,3} with completed
\* {1,2} is not complete and mini_progress marks season 3 as not covered.
C18_CompleteIffAllEmitted ==
    mem.op = "entry" =>
        LET emitted == Range(mem.entry.emitted)
            completed == Range(mem.it.completed)
        IN  /\ (mem.entry.progress = "tenemos_todo") <=>
                  (emitted # {} /\ emitted \subseteq completed)
            /\ (emitted = {1, 2, 3} /\ completed = {1, 2}) =>
                  /\ mem.entry.progress = "nos_queda"
                  /\ \A i \in 1..Len(mem.entry.mini) :
                        mem.entry.mini[i].have = (mem.entry.mini[i].n # 3)
                  /\ \E i \in 1..Len(mem.entry.mini) : mem.entry.mini[i].n = 3

C18_Witness ==
    /\ mem.op = "entry"
    /\ Range(mem.entry.emitted) = {1, 2, 3}
    /\ Range(mem.it.completed) = {1, 2}
    /\ mem.entry.progress = "nos_queda"

(***************************************************************************)
(* Pages of the list: list_series, turn_page, delete_turn_page.            *)
(***************************************************************************)
\* int(s): an optional sign and decimal digits, or ValueError
ParseInt(s) ==
    IF IsDigits(s) THEN [ok |-> TRUE, val |-> ToInt(s)]
    ELSE IF s # <<>> /\ s[1] \in {"-", "+"} /\ IsDigits(Tail(s))
    THEN [ok |-> TRUE, val |-> IF s[1] = "-" THEN 0 - ToInt(Tail(s)) ELSE ToInt(Tail(s))]
    ELSE [ok |-> FALSE, val |-> 0]

\* try: page = int(q.data.split(":")[1])  except: page = 0
\* on the text after the colon of the callback data
page_of_data(s) == IF ParseInt(s).ok THEN ParseInt(s).val ELSE 0

\* the details the catalog has for the series of the long lists
Details(id) ==
    CASE id % 3 = 0 -> [seasons |-> <<Season(1, D20251231), Season(2, D20261103)>>,
                        next_episode_to_air |-> NoEpisode]
      [] id % 3 = 1 -> [seasons |-> <<Season(1, D20251231)>>,
                        next_episode_to_air |->
                            [air_date |-> D20261104, season_number |-> 2]]
      [] id % 3 = 2 -> [seasons |-> <<Season(0, D20261102)>>,
                        next_episode_to_air |-> NoEpisode]

\* entry = f"{it['title']} ({it['year']})"
fallback_entry(it) ==
    [kind |-> "fallback", title |-> it.title, year |-> it.year]

\* try: entry = build_list_entry(it)  except: entry = fallback
list_line(it, failed, today) ==
    IF failed THEN fallback_entry(it)
    ELSE build_list_entry(it, Details(it.tmdb_id), today)

\* the positions of lines before the first one whose catalog call fails
Unfailed(start, n, fails) ==
    {k \in 1..n : \A j \in 1..k : (start + j - 1) \notin fails}

\* the body of list_series with its try/except around the whole loop: the
\* first failure ends the lines
list_page_aborting(cid, items, page, fails, today) ==
    LET total == Len(items)
        start == PageStart(total, page)
        end == PageEnd(total, page)
    IN  IF total = 0
        THEN [kind |-> "empty", page |-> 0, lines |-> <<>>, kb |-> NoKb]
        ELSE [kind |-> "listed", page |-> ClampPage(total, page),
              lines |-> [k \in 1..Cardinality(Unfailed(start, end - start, fails)) |->
                            [idx |-> start + k,
                             entry |-> list_line(items[start + k], FALSE, today)]],
              kb |-> make_list_keyboard(cid, items, ClampPage(total, page))]

\* the body of list_series and of turn_page after the page is known: the
\* message (numbered lines, keyboard) or "Lista vacía."; fails is the set
\* of positions, counted from 0, whose tmdb_tv_details call raises
list_page(cid, items, page, fails, today) ==
    LET total == Len(items)
        start == PageStart(total, page)
        end == PageEnd(total, page)
    IN  IF total = 0
        THEN [kind |-> "empty", page |-> 0, lines |-> <<>>, kb |-> NoKb]
        ELSE [kind |-> "listed", page |-> ClampPage(total, page),
              lines |-> [k \in 1..(end - start) |->
                            [idx |-> start + k,
                             entry |-> list_line(items[start + k],
                                                 (start + k - 1) \in fails, today)]],
              kb |-> make_list_keyboard(cid, items, ClampPage(total, page))]

\* delete_turn_page after load_db: the keyboard or "No quedan series."
delete_page(cid, items, page) ==
    IF Len(items) = 0
    THEN [kind |-> "empty", page |-> 0, lines |-> <<>>, kb |-> NoKb]
    ELSE [kind |-> "keyboard", page |-> ClampPage(Len(items), page), lines |-> <<>>,
          kb |-> make_delete_keyboard(cid, items, ClampPage(Len(items), page))]

(***************************************************************************)
(* SpecRender: one chat with a list of any length up to MaxTotal, and the  *)
(* page commands and clicks on one message, with any page in the callback  *)
(* data and catalog calls that fail for some positions.  mem holds the     *)
(* last render: [op, req, fails, out].                                     *)
(***************************************************************************)
MaxTotal == 25   \* entries of the list
FailMod == 2     \* a position fails by its remainder modulo FailMod

RenderDay == <<2026, 11, 3>>

DigitCh(n) ==
    CASE n = 0 -> "0" [] n = 1 -> "1" [] n = 2 -> "2" [] n = 3 -> "3" [] n = 4 -> "4"
      [] n = 5 -> "5" [] n = 6 -> "6" [] n = 7 -> "7" [] n = 8 -> "8" [] n = 9 -> "9"

\* str(n), n >= 0
RECURSIVE Str(_)
Str(n) == IF n < 10 THEN <<DigitCh(n)>> ELSE Str(n \div 10) \o <<DigitCh(n % 10)>>

\* the entry /add wrote for the series of id k
SeriesN(k) == [tmdb_id |-> k, title |-> <<"T">> \o Str(k),
               year |-> <<"2", "0", "0", "4">>,
               completed |-> <<1>>, user_id |-> "u7"]

LongList(n) == [k \in 1..n |-> SeriesN(k)]

PageData == {<<"0">>, <<"1">>, <<"2">>, <<"9", "9">>, <<"-", "5">>, <<"x">>}

FailSets ==
    {{p \in 0..(MaxTotal - 1) : p % FailMod \in R} : R \in SUBSET (0..(FailMod - 1))}

InitRender ==
    /\ disk \in {AbsentFile}
                  \cup {save_db([c \in {"10"} |-> ChatDict(LongList(n))]) :
                           n \in 0..MaxTotal}
    /\ hs = [h \in Handlers |-> IdleSlot]
    /\ kbs = [m \in Msgs |-> NoKb]
    /\ sent = NoReply
    /\ serial = EmptyDb
    /\ mem = NoMem

\* what a render leaves: the message on screen and the call in mem
Rendered(m, op, req, fails, out) ==
    /\ sent' = Reply(out.kind, NoId, 0)
    /\ kbs' = IF out.kind = "empty" /\ op = "list" THEN kbs
              ELSE [kbs EXCEPT ![m] = out.kb]
    /\ mem' = [op |-> op, req |-> req, fails |-> fails, out |-> out]
    /\ UNCHANGED <<disk, hs, serial>>

\* /lista: list_series, page = 0
ListPage(m, c, fails) ==
    \E g \in {get_items(load_db(disk).db, c)} :
        Rendered(m, "list", 0, fails, list_page(c, g.items, 0, fails, RenderDay))

\* a click with callback data page:<data> on a message of the list
TurnPage(m, data, fails) ==
    /\ kbs[m].kind = "list"
    /\ \E g \in {get_items(load_db(disk).db, kbs[m].cid)} :
          Rendered(m, "turn", page_of_data(data), fails,
                   list_page(kbs[m].cid, g.items, page_of_data(data), fails, RenderDay))

\* /borrar
DeleteMenu(m, c) ==
    \E g \in {get_items(load_db(disk).db, c)} :
        Rendered(m, "list", 0, {}, delete_page(c, g.items, 0))

\* a click with callback data delpage:<data> on a message of /borrar
DeleteTurnPage(m, data) ==
    /\ kbs[m].kind = "del"
    /\ \E g \in {get_items(load_db(disk).db, kbs[m].cid)} :
          Rendered(m, "turn", page_of_data(data), {},
                   delete_page(kbs[m].cid, g.items, page_of_data(data)))

NextRender ==
    \/ \E fails \in FailSets : ListPage("m1", "10", fails)
    \/ \E data \in PageData, fails \in FailSets : TurnPage("m1", data, fails)
    \/ DeleteMenu("m1", "10")
    \/ \E data \in PageData : DeleteTurnPage("m1", data)

SpecRender == InitRender /\ [][NextRender]_vars

\* the list the renders of SpecRender read
Listed == ItemsOf(Store, "10")

\* C13: every failure of a catalog call is caught in the handler that made
\* it, which still ends with a reply: add by id, add by title, the render
\* of a list page and show details.
C13_CatalogFailuresCaught ==
    /\ \A idx \in 0..(MaxTotal - 1) :
          show_series(Store, "10", idx, FALSE).kind # "raised"
    /\ add_series(Store, "10", "u7", <<D1, S1S2>>, Gw(FALSE, <<>>)).kind # "raised"
    /\ add_series(Store, "10", "u7", <<<<"a">>, S1S2>>, Gw(FALSE, <<>>)).kind # "raised"
    /\ list_page("10", Listed, 0, 0..(MaxTotal - 1), RenderDay).kind
          \in {"listed", "empty"}

\* C14: on a rendered list page, a position whose catalog call failed shows
\* the fallback "title (year)" of its entry and every other position shows
\* the full line of its entry, all numbered in the order of the list; the
\* reply is sent.
C14_FailureDegradesOneLine ==
    (mem.op \in {"list", "turn"} /\ mem.out.kind = "listed") =>
        LET start == mem.out.page * PAGE_SIZE
            end == Min(start + PAGE_SIZE, Len(Listed))
            lines == mem.out.lines
        IN  /\ sent.kind = "listed"
            /\ Len(lines) = end - start
            /\ \A k \in 1..Len(lines) :
                  /\ lines[k].idx = start + k
                  /\ lines[k].entry.title = Listed[start + k].title
                  /\ lines[k].entry.year = Listed[start + k].year
                  /\ lines[k].entry.kind =
                        IF (start + k - 1) \in mem.fails THEN "fallback" ELSE "entry"

\* a full page on which some catalog calls failed and some did not
C14_Witness ==
    /\ mem.op = "turn" /\ mem.out.kind = "listed"
    /\ Len(mem.out.lines) = PAGE_SIZE
    /\ mem.out.lines[1].entry.kind = "fallback"
    /\ mem.out.lines[2].entry.kind = "entry"
    /\ mem.out.lines[2].entry.mini # <<>>

\* ceil(a / b) for a >= 0, b > 0
CeilDiv(a, b) == IF a % b = 0 THEN a \div b ELSE (a \div b) + 1

lastPage(total) == IF CeilDiv(total, PAGE_SIZE) - 1 > 0
                   THEN CeilDiv(total, PAGE_SIZE) - 1 ELSE 0

\* a keyboard of page p over total entries shows the positions
\* [p * 10, min(p * 10 + 10, total)), and that range is not empty
ShowsPage(kb, total, p) ==
    /\ p \in 0..lastPage(total)
    /\ kb.page = p
    /\ Controls(kb) = (p * PAGE_SIZE)..(Min(p * PAGE_SIZE + PAGE_SIZE, total) - 1)
    /\ Controls(kb) # {}

\* C15: with total >= 1 entries, whatever page is requested, the page that
\* list_series, turn_page, delete_turn_page, delete_item and the keyboard
\* builders render is in [0, lastPage(total)] and shows the non-empty range
\* [page * 10, min(page * 10 + 10, total)); with no entry nothing is
\* rendered and the message says the list is empty.
C15_PageInRange ==
    /\ mem.op \in {"list", "turn"} =>
          IF Len(Listed) = 0
          THEN mem.out.kind = "empty" /\ mem.out.kb = NoKb /\ sent.kind = "empty"
          ELSE /\ ShowsPage(mem.out.kb, Len(Listed), mem.out.page)
               /\ kbs["m1"] = mem.out.kb
               /\ mem.out.kind = "listed" =>
                     /\ Len(mem.out.lines) = Cardinality(Controls(mem.out.kb))
                     /\ \A k \in 1..Len(mem.out.lines) :
                           mem.out.lines[k].idx = mem.out.page * PAGE_SIZE + k
    /\ \A data \in PageData :
          LET p == page_of_data(data)
              dk == make_delete_keyboard("10", Listed, p)
              lk == make_list_keyboard("10", Listed, p)
          IN  IF Len(Listed) = 0 THEN dk = NoKb /\ lk = NoKb
              ELSE ShowsPage(dk, Len(Listed), dk.page)
                   /\ ShowsPage(lk, Len(Listed), lk.page)
    /\ \A data \in PageData, idx \in {0 - 1, 0, Len(Listed) - 1, Len(Listed)} :
          LET r == delete_item(Store, "10", idx, page_of_data(data))
              left == Len(ItemsOf(r.db, "10"))
          IN  IF left = 0 THEN r.kb = NoKb
              ELSE ShowsPage(r.kb, left, r.kb.page)

\* page 99 was requested on a list of 25 entries and page 2, the last, was
\* rendered with its 5 entries
C15_Witness ==
    /\ mem.op = "turn" /\ mem.req = 99
    /\ Len(Listed) = 25
    /\ mem.out.page = 2
    /\ Len(mem.out.lines) = 5

(***************************************************************************)
(* SpecCrash: save_db in the steps of Path.write_text, open(path, "w")     *)
(* which truncates the document, the writes, and close, with a process     *)
(* that can be killed between two of them and started again.  Both a       *)
(* truncated and a partly written document fail to parse.  hs holds the    *)
(* save in progress (pc: opened | partial, snap: the text to write), mem   *)
(* the last save begun: [op, prev, new].                                   *)
(***************************************************************************)
\* the document once open(path, "w") has truncated it
TruncatedFile == MalformedFile

\* the document after a first part of the text is written
PartialFile == MalformedFile

\* /add up to the open() of save_db
AddBeginSave(h, c, u, cmd) ==
    /\ \A k \in Handlers : hs[k].pc = "idle"
    /\ \E r \in {add_series(Store, c, u, cmd.args, cmd.gw)} :
          /\ TotalEntries(r.db) <= MaxEntries
          /\ IF r.saved
             THEN /\ disk' = TruncatedFile
                  /\ hs' = [hs EXCEPT ![h] =
                              [IdleSlot EXCEPT !.pc = "opened", !.cid = c,
                                               !.snap = save_db(r.db)]]
                  /\ mem' = [op |-> "save", prev |-> disk, new |-> save_db(r.db)]
                  /\ sent' = sent
             ELSE /\ sent' = Reply(r.kind, NoId, 0)
                  /\ UNCHANGED <<disk, hs, mem>>
    /\ UNCHANGED <<kbs, serial>>

\* a first write of the text reaches the document
WritePart(h) ==
    /\ hs[h].pc = "opened"
    /\ disk' = PartialFile
    /\ hs' = [hs EXCEPT ![h].pc = "partial"]
    /\ UNCHANGED <<kbs, sent, serial, mem>>

\* the rest of the text is written and the file closed; the handler replies
WriteRest(h) ==
    /\ hs[h].pc \in {"opened", "partial"}
    /\ disk' = hs[h].snap
    /\ hs' = [hs EXCEPT ![h] = IdleSlot]
    /\ sent' = Reply("saved", NoId, 0)
    /\ UNCHANGED <<kbs, serial, mem>>

\* the process is killed during the save and started again
Interrupt(h) ==
    /\ hs[h].pc \in {"opened", "partial"}
    /\ hs' = [hs EXCEPT ![h] = IdleSlot]
    /\ sent' = Reply("killed", NoId, 0)
    /\ UNCHANGED <<disk, kbs, serial, mem>>

NextCrash ==
    \/ \E c \in Chats, cmd \in ConcCommands : AddBeginSave("h1", c, "u7", cmd)
    \/ WritePart("h1")
    \/ WriteRest("h1")
    \/ Interrupt("h1")

SpecCrash == Init /\ [][NextCrash]_vars

\* C21: save_db replaces the document atomically: once a save has begun,
\* and whether it ended or the process was killed during it, load_db
\* returns the whole previous document or the whole new one.
C21_SaveAtomic ==
    (mem.op = "save" /\ \A h \in Handlers : hs[h].pc = "idle") =>
        load_db(disk).db \in {load_db(mem.prev).db, load_db(mem.new).db}

====
